---- MODULE Spec2Model ----
(***************************************************************************)
(* Schema-inference engine of the code generator: ODataParser classifies   *)
(* every (key, value) pair of a sample record into a field descriptor and  *)
(* summarises the descriptor list into the document structure (primary     *)
(* key, user filter fields, datatable selection).                          *)
(*                                                                         *)
(* Text is modelled as a sequence of one-character strings, so substring   *)
(* tests, lower-casing and the regular expressions of the source are       *)
(* computed character by character.                                        *)
(***************************************************************************)
EXTENDS Integers, Sequences, FiniteSets, TLC

\* ------------------------------------------------------------------------
\* Bounds of the model
\* ------------------------------------------------------------------------
MaxPick == 3

MaxFields == 9

MaxParseCalls == 2

MaxRuns == 2

MaxParams == 2

NumRequests == 2

\* ------------------------------------------------------------------------
\* Python text primitives
\* ------------------------------------------------------------------------
UpperChars == <<"A","B","C","D","E","F","G","H","I","J","K","L","M","N","O","P","Q","R","S","T","U","V","W","X","Y","Z">>

LowerChars == <<"a","b","c","d","e","f","g","h","i","j","k","l","m","n","o","p","q","r","s","t","u","v","w","x","y","z">>

Digits == {"0","1","2","3","4","5","6","7","8","9"}

Range(s) == {s[i] : i \in 1..Len(s)}

Min(a, b) == IF a < b THEN a ELSE b

\* str.lower() on one character
LowerChar(c) ==
    IF c \in Range(UpperChars)
    THEN LowerChars[CHOOSE i \in 1..Len(UpperChars) : UpperChars[i] = c]
    ELSE c

\* str.upper() on one character
UpperChar(c) ==
    IF c \in Range(LowerChars)
    THEN UpperChars[CHOOSE i \in 1..Len(LowerChars) : LowerChars[i] = c]
    ELSE c

\* str.lower()
Lower(s) == [i \in 1..Len(s) |-> LowerChar(s[i])]

\* Python's "sub in s" on text
Contains(sub, s) ==
    \E i \in 1..(Len(s) - Len(sub) + 1) : SubSeq(s, i, i + Len(sub) - 1) = sub

\* any(indicator in key.lower() for indicator in indicators)
AnyIndicatorIn(indicators, key) ==
    \E k \in 1..Len(indicators) : Contains(indicators[k], Lower(key.s))

\* seq[:n]
Take(seq, n) == SubSeq(seq, 1, Min(n, Len(seq)))

\* re.match(pattern, value) for a pattern that is a fixed run of \d and
\* literal characters; anchored at the start only
MatchPrefix(pat, s) ==
    /\ Len(s) >= Len(pat)
    /\ \A i \in 1..Len(pat) :
          IF pat[i] = "\\d" THEN s[i] \in Digits ELSE s[i] = pat[i]

\* the same pattern followed by $ (end of text, or just before a final newline)
MatchWhole(pat, s) ==
    /\ MatchPrefix(pat, s)
    /\ \/ Len(s) = Len(pat)
       \/ Len(s) = Len(pat) + 1 /\ s[Len(s)] = "\n"

\* ------------------------------------------------------------------------
\* Values of the sample: kind is the Python type of the object; s is the text
\* of a str; n and frac give a number n + frac/10 (True is 1, False is 0)
\* ------------------------------------------------------------------------
StrVal(s) == [kind |-> "str", s |-> s, n |-> 0, frac |-> 0]

IntVal(n) == [kind |-> "int", s |-> <<>>, n |-> n, frac |-> 0]

FloatVal(n, frac) == [kind |-> "float", s |-> <<>>, n |-> n, frac |-> frac]

BoolVal(b) == [kind |-> "bool", s |-> <<>>, n |-> IF b THEN 1 ELSE 0, frac |-> 0]

NoneVal == [kind |-> "NoneType", s |-> <<>>, n |-> 0, frac |-> 0]

\* isinstance(value, (int, float)): bool is a subclass of int
IsNumber(value) == value.kind \in {"int", "float", "bool"}

\* value in [0, 1]
InZeroOne(value) == value.frac = 0 /\ value.n \in {0, 1}

\* ------------------------------------------------------------------------
\* ODataParser: classification of one (key, value) pair
\* ------------------------------------------------------------------------
\* re.sub(r'[^a-zA-Z0-9_]', '', name); raises TypeError when name is no str
NormalizeRaises(key) == key.kind # "str"

IsWordChar(c) == c \in Range(UpperChars) \cup Range(LowerChars) \cup Digits \cup {"_"}

_normalize_property_name(key) == SelectSeq(key.s, IsWordChar)

\* ' '.join(word.capitalize() for word in property_name.split('_'))
_format_label(key) ==
    [i \in 1..Len(key.s) |->
        IF key.s[i] = "_" THEN " "
        ELSE IF i = 1 \/ key.s[i - 1] = "_" THEN UpperChar(key.s[i])
        ELSE LowerChar(key.s[i])]

time_patterns == <<
    <<"\\d","\\d",":","\\d","\\d",":","\\d","\\d">>,
    <<"\\d",":","\\d","\\d",":","\\d","\\d">>,
    <<"\\d","\\d",":","\\d","\\d">>,
    <<"\\d",":","\\d","\\d">> >>

_is_time_string(s) ==
    \E k \in 1..Len(time_patterns) : MatchWhole(time_patterns[k], s)

date_field_indicators == <<
    <<"d","a","t","e">>, <<"c","r","e","a","t","e","d">>, <<"m","o","d","i","f","i","e","d">>, <<"s","t","a","r","t">>, <<"e","n","d">>, <<"e","x","p","i","r">> >>

PatYMD == <<"\\d","\\d","\\d","\\d","-","\\d","\\d","-","\\d","\\d">>

PatYMDTime(sep) == PatYMD \o <<sep,"\\d","\\d",":","\\d","\\d",":","\\d","\\d">>

PatMDY == <<"\\d","\\d","/","\\d","\\d","/","\\d","\\d","\\d","\\d">>

\* variant: the name of the field is not consulted
_is_definitely_date_string_any_name(key, value) ==
    /\ value.kind = "str"
    /\ \/ MatchWhole(PatYMD, value.s)
       \/ MatchPrefix(PatYMDTime("T"), value.s)
       \/ MatchPrefix(PatYMDTime(" "), value.s)
       \/ MatchWhole(PatMDY, value.s)

_is_definitely_date_string(key, value) ==
    /\ value.kind = "str"
    /\ AnyIndicatorIn(date_field_indicators, key)
    /\ \/ MatchWhole(PatYMD, value.s)
       \/ MatchPrefix(PatYMDTime("T"), value.s)
       \/ MatchPrefix(PatYMDTime(" "), value.s)
       \/ MatchWhole(PatMDY, value.s)

strong_boolean_indicators == <<
    <<"i","s","_">>, <<"h","a","s","_">>, <<"c","a","n","_">>, <<"s","h","o","u","l","d","_">>, <<"w","i","l","l","_">>, <<"w","a","s","_">>, <<"w","e","r","e","_">>,
    <<"a","l","l","o","w","_">>, <<"e","n","a","b","l","e","_">>, <<"d","i","s","a","b","l","e","_">>, <<"a","c","t","i","v","e">>, <<"e","n","a","b","l","e","d">>, <<"d","i","s","a","b","l","e","d">>,
    <<"v","i","s","i","b","l","e">>, <<"h","i","d","d","e","n">>, <<"l","o","c","k","e","d">>, <<"a","p","p","r","o","v","e","d">>, <<"r","e","j","e","c","t","e","d">>, <<"p","u","b","l","i","s","h","e","d">>,
    <<"c","o","m","p","l","e","t","e","d">>, <<"c","l","o","s","e","d">>, <<"p","o","s","t","e","d">>, <<"p","r","o","c","e","s","s","e","d">> >>

NameSuggestsBoolean(key) == AnyIndicatorIn(strong_boolean_indicators, key)

ValueIsBoolean(value) ==
    \/ value.kind = "bool"
    \/ IsNumber(value) /\ InZeroOne(value)
    \/ /\ value.kind = "str"
       /\ Lower(value.s) \in {<<"t","r","u","e">>, <<"f","a","l","s","e">>, <<"y","e","s">>, <<"n","o">>, <<"y">>, <<"n">>}

\* variant: name and value combined with or
_is_definitely_boolean_or(key, value) ==
    NameSuggestsBoolean(key) \/ ValueIsBoolean(value)

_is_definitely_boolean(key, value) ==
    NameSuggestsBoolean(key) /\ ValueIsBoolean(value)

_is_boolean_field(key, value) == _is_definitely_boolean(key, value)

strong_indicators == <<
    <<"i","s","_">>, <<"h","a","s","_">>, <<"c","a","n","_">>, <<"s","h","o","u","l","d","_">>, <<"w","i","l","l","_">>, <<"w","a","s","_">>, <<"w","e","r","e","_">>,
    <<"a","l","l","o","w","_">>, <<"e","n","a","b","l","e","_">>, <<"d","i","s","a","b","l","e","_">>, <<"a","c","t","i","v","e">>, <<"e","n","a","b","l","e","d">>, <<"d","i","s","a","b","l","e","d">> >>

\* variant: every name counts as a strong indicator
_is_strong_boolean_indicator_any_name(key) == TRUE

_is_strong_boolean_indicator(key) == AnyIndicatorIn(strong_indicators, key)

primary_indicators == << <<"n","o">>, <<"c","o","d","e">>, <<"i","d">>, <<"d","o","c","n","o">>, <<"n","u","m","b","e","r">>, <<"k","e","y">> >>

_is_primary_key(key) == AnyIndicatorIn(primary_indicators, key)

date_indicators == << <<"d","a","t","e">>, <<"t","i","m","e">>, <<"c","r","e","a","t","e","d">>, <<"m","o","d","i","f","i","e","d">>, <<"s","t","a","r","t">>, <<"e","n","d">> >>

_is_date_field(key, value) ==
    \/ /\ value.kind = "str"
       /\ \/ MatchPrefix(PatYMD, value.s)
          \/ MatchPrefix(PatMDY, value.s)
          \/ MatchPrefix(PatYMDTime("T"), value.s)
    \/ AnyIndicatorIn(date_indicators, key)

amount_indicators == <<
    <<"a","m","o","u","n","t">>, <<"t","o","t","a","l">>, <<"c","o","s","t">>, <<"p","r","i","c","e">>, <<"v","a","l","u","e">>, <<"s","u","m">>, <<"b","a","l","a","n","c","e">>,
    <<"q","t","y">>, <<"q","u","a","n","t","i","t","y">> >>

_is_amount_field(key) == AnyIndicatorIn(amount_indicators, key)

_is_status_field(key) == Contains(<<"s","t","a","t","u","s">>, Lower(key.s))

user_indicators == <<
    <<"u","s","e","r">>, <<"c","r","e","a","t","e","d","b","y">>, <<"r","e","q","u","e","s","t","o","r">>, <<"s","t","a","f","f">>, <<"e","m","p","l","o","y","e","e">>, <<"a","c","c","o","u","n","t">>,
    <<"p","e","r","s","o","n","n","e","l">> >>

_is_user_related(key) == AnyIndicatorIn(user_indicators, key)

\* the helpers below are applied to str keys only: parse() evaluates
\* _normalize_property_name first, which raises on any other key
_infer_csharp_type(key, value) ==
    IF value.kind = "NoneType" THEN "object"
    ELSE IF value.kind = "bool" THEN "bool"
    ELSE IF value.kind = "str" THEN
        IF _is_time_string(value.s) THEN "TimeSpan"
        ELSE IF _is_definitely_date_string(key, value) THEN "DateTime"
        ELSE IF Lower(value.s) \in {<<"t","r","u","e">>, <<"f","a","l","s","e">>, <<"y","e","s">>, <<"n","o">>} THEN "bool"
        ELSE "string"
    ELSE IF IsNumber(value) THEN
        IF _is_amount_field(key) THEN "decimal"
        ELSE IF InZeroOne(value) /\ _is_strong_boolean_indicator(key) THEN "bool"
        ELSE IF value.kind = "int" THEN "int" ELSE "decimal"
    ELSE "object"

\* variant: the date test comes before the primary key test
_generate_description_date_first(key, value) ==
    IF _is_date_field(key, value) THEN
        IF value.kind = "str" /\ _is_time_string(value.s)
        THEN "Time field" ELSE "Date field"
    ELSE IF _is_primary_key(key) THEN "Primary key identifier"
    ELSE IF _is_amount_field(key) THEN "Monetary amount"
    ELSE IF _is_status_field(key) THEN "Document status"
    ELSE IF _is_boolean_field(key, value) THEN "Boolean indicator"
    ELSE IF _is_user_related(key) THEN "User reference"
    ELSE ""

\* str(value) of None, a bool or a number holds no ':' and that of a list or
\* dict starts with a bracket, so only the text of a str can be a time
_generate_description(key, value) ==
    IF _is_primary_key(key) THEN "Primary key identifier"
    ELSE IF _is_date_field(key, value) THEN
        IF value.kind = "str" /\ _is_time_string(value.s)
        THEN "Time field" ELSE "Date field"
    ELSE IF _is_amount_field(key) THEN "Monetary amount"
    ELSE IF _is_status_field(key) THEN "Document status"
    ELSE IF _is_boolean_field(key, value) THEN "Boolean indicator"
    ELSE IF _is_user_related(key) THEN "User reference"
    ELSE ""

\* the dict built by one iteration of the loop in parse(), for a str key
Prop(key, value) ==
    [original_name   |-> key,
     csharp_name     |-> _normalize_property_name(key),
     display_name    |-> _format_label(key),
     type            |-> _infer_csharp_type(key, value),
     is_primary_key  |-> _is_primary_key(key),
     is_date         |-> _is_date_field(key, value),
     is_amount       |-> _is_amount_field(key),
     is_status       |-> _is_status_field(key),
     is_user_related |-> _is_user_related(key),
     is_boolean      |-> _is_boolean_field(key, value),
     description     |-> _generate_description(key, value)]

\* ------------------------------------------------------------------------
\* ODataParser: document structure
\* ------------------------------------------------------------------------
\* [p for p in props if p.get(flag)]
Flagged(props, flag) == SelectSeq(props, LAMBDA p : p[flag])

\* p in lst (dict equality)
In(p, lst) == \E i \in 1..Len(lst) : lst[i] = p

\* variant: the fill is not limited to the remaining slots and the result is
\* not cut to max_count
_select_datatable_properties_uncapped(props, primary_key, max_count) ==
    LET priority == primary_key
                    \o Take(Flagged(props, "is_date"), 2)
                    \o Take(Flagged(props, "is_amount"), 2)
                    \o Take(Flagged(props, "is_status"), 1)
                    \o Take(Flagged(props, "is_boolean"), 1)
    IN  priority \o SelectSeq(props,
                       LAMBDA p : ~In(p, priority) /\ ~p.is_primary_key)

\* variant: the primary key is appended after the dates
_select_datatable_properties_dates_first(props, primary_key, max_count) ==
    LET priority == Take(Flagged(props, "is_date"), 2)
                    \o primary_key
                    \o Take(Flagged(props, "is_amount"), 2)
                    \o Take(Flagged(props, "is_status"), 1)
                    \o Take(Flagged(props, "is_boolean"), 1)
        other_props == SelectSeq(props,
                          LAMBDA p : ~In(p, priority) /\ ~p.is_primary_key)
    IN  Take(priority \o Take(other_props, max_count - Len(priority)), max_count)

\* primary_key is <<>> for None and <<p>> for the descriptor p
_select_datatable_properties(props, primary_key, max_count) ==
    LET withKey    == primary_key
        withDates  == withKey \o Take(Flagged(props, "is_date"), 2)
        withAmts   == withDates \o Take(Flagged(props, "is_amount"), 2)
        withStatus == withAmts \o Take(Flagged(props, "is_status"), 1)
        priority   == withStatus \o Take(Flagged(props, "is_boolean"), 1)
        remaining_slots == max_count - Len(priority)
        other_props == SelectSeq(props,
                          LAMBDA p : ~In(p, priority) /\ ~p.is_primary_key)
        filled == IF remaining_slots > 0
                  THEN priority \o Take(other_props, remaining_slots)
                  ELSE priority
    IN  Take(filled, max_count)

\* variant: the last flagged descriptor is taken as primary key
_identify_document_structure_last_key(props) ==
    LET primary_keys == Flagged(props, "is_primary_key")
        primary_key  == IF primary_keys = <<>> THEN <<>>
                        ELSE <<primary_keys[Len(primary_keys)]>>
    IN  [primary_key          |-> primary_key,
         user_filter_fields   |-> Flagged(props, "is_user_related"),
         datatable_properties |-> _select_datatable_properties(props, primary_key, 8)]

\* variant: the user filter fields are cut to the datatable size
_identify_document_structure_capped_users(props) ==
    LET primary_key == Take(Flagged(props, "is_primary_key"), 1)
    IN  [primary_key          |-> primary_key,
         user_filter_fields   |-> Take(Flagged(props, "is_user_related"), 8),
         datatable_properties |-> _select_datatable_properties(props, primary_key, 8)]

_identify_document_structure(props) ==
    LET primary_keys == Flagged(props, "is_primary_key")
        primary_key  == Take(primary_keys, 1)
    IN  [primary_key          |-> primary_key,
         user_filter_fields   |-> Flagged(props, "is_user_related"),
         datatable_properties |-> _select_datatable_properties(props, primary_key, 8)]

\* ------------------------------------------------------------------------
\* Samples handed to ODataParser(odata)
\* ------------------------------------------------------------------------
\* __init__ stores the mapping unchecked: a key is a str (every key decoded
\* from a JSON body is) or, for a caller of the class, any other hashable
\* object such as an int
StrKey(s) == [kind |-> "str", s |-> s, n |-> 0]

IntKey(n) == [kind |-> "int", s |-> <<>>, n |-> n]

Pool == <<
    <<StrKey(<<"D","o","c","N","o">>),       StrVal(<<"I","N","V","0","0","1">>)>>,
    <<StrKey(<<"A","m","o","u","n","t">>),      FloatVal(150, 5)>>,
    <<StrKey(<<"I","s","P","o","s","t","e","d">>),    BoolVal(TRUE)>>,
    <<StrKey(<<"C","r","e","a","t","e","d","D","a","t","e">>), StrVal(<<"2","0","2","4","-","0","1","-","1","5">>)>>,
    <<StrKey(<<"S","t","a","t","u","s">>),      StrVal(<<"O","p","e","n">>)>>,
    <<StrKey(<<"Q","u","a","n","t","i","t","y">>),    IntVal(1)>>,
    <<StrKey(<<"i","s","_","a","c","t","i","v","e">>),   IntVal(2)>>,
    <<StrKey(<<"P","o","s","t","e","d">>),      IntVal(1)>>,
    <<StrKey(<<"S","t","a","r","t","N","o">>),     IntVal(7)>>,
    <<StrKey(<<"E","n","d","D","a","t","e">>),     NoneVal>>,
    <<StrKey(<<"P","o","s","t","i","n","g">>),     StrVal(<<"2","0","2","4","-","0","1","-","1","5">>)>>,
    <<StrKey(<<"V","e","r","i","f","i","e","d">>),    BoolVal(TRUE)>>,
    <<StrKey(<<"C","o","u","n","t">>),       IntVal(1)>>,
    <<StrKey(<<"C","r","e","a","t","e","d","B","y">>),   StrVal(<<"a","l","i","c","e">>)>>,
    <<StrKey(<<"S","t","a","r","t","T","i","m","e">>),   StrVal(<<"0","8",":","0","0",":","0","0">>)>>,
    <<IntKey(5),              StrVal(<<"x">>)>> >>

PoolIdx == 1..Len(Pool)

\* further entries, all user-related, that follow the pool in wide samples
UserPool == <<
    <<StrKey(<<"U","s","e","r">>),        StrVal(<<"a","l","i","c","e">>)>>,
    <<StrKey(<<"S","t","a","f","f">>),       StrVal(<<"b","o","b">>)>>,
    <<StrKey(<<"E","m","p","l","o","y","e","e">>),    StrVal(<<"c","a","r","o","l">>)>>,
    <<StrKey(<<"A","c","c","o","u","n","t">>),     StrVal(<<"d","a","v","e">>)>>,
    <<StrKey(<<"R","e","q","u","e","s","t","o","r">>),   StrVal(<<"e","r","i","n">>)>>,
    <<StrKey(<<"P","e","r","s","o","n","n","e","l">>),   StrVal(<<"f","r","a","n","k">>)>>,
    <<StrKey(<<"U","s","e","r","N","a","m","e">>),    StrVal(<<"g","r","a","c","e">>)>>,
    <<StrKey(<<"S","t","a","f","f","N","a","m","e">>),   StrVal(<<"h","e","i","d","i">>)>>,
    <<StrKey(<<"A","c","c","o","u","n","t","N","a","m","e">>), StrVal(<<"i","v","a","n">>)>> >>

WidePool == Pool \o UserPool

WideIdx == 1..Len(WidePool)

\* the members of a set of pool positions, in ascending order
RECURSIVE Ascending(_)
Ascending(S) ==
    IF S = {} THEN <<>>
    ELSE LET m == CHOOSE x \in S : \A y \in S : x <= y
         IN  <<m>> \o Ascending(S \ {m})

Reverse(seq) == [i \in 1..Len(seq) |-> seq[Len(seq) + 1 - i]]

\* a dict keeps insertion order and has no repeated key: a sample is a
\* selection of pool entries, in pool order or reversed
Picks == {S \in SUBSET PoolIdx : Cardinality(S) <= MaxPick}

Runs == {S \in {i..j : i \in WideIdx, j \in WideIdx} :
            Cardinality(S) <= MaxFields}

Samples ==
    LET inOrder == {[i \in 1..Len(Ascending(S)) |-> WidePool[Ascending(S)[i]]] :
                        S \in Picks \cup Runs}
    IN  inOrder \cup {Reverse(s) : s \in inOrder}

\* ------------------------------------------------------------------------
\* Parameter elements: an attribute is <<>> when the element does not carry
\* it and <<text>> when it does
\* ------------------------------------------------------------------------
Element(name, type, minOccurs, maxOccurs) ==
    [name |-> name, type |-> type, minOccurs |-> minOccurs, maxOccurs |-> maxOccurs]

\* element.get(attribute, default)
Attr(element, attribute, default) ==
    IF element[attribute] = <<>> THEN default ELSE element[attribute][1]

\* any(indicator in text.lower() for indicator in indicators)
AnyIn(indicators, text) ==
    \E k \in 1..Len(indicators) : Contains(indicators[k], Lower(text))

IsAlnum(c) == c \in Range(UpperChars) \cup Range(LowerChars) \cup Digits

\* the lists of a list of lists, joined
RECURSIVE Flatten(_)
Flatten(lists) ==
    IF lists = <<>> THEN <<>> ELSE Head(lists) \o Flatten(Tail(lists))

\* ------------------------------------------------------------------------
\* FunctionParser
\* ------------------------------------------------------------------------
\* variant: an element without minOccurs counts as minOccurs = "0"
_parse_parameter_element_absent_optional(element) ==
    LET param_name == Attr(element, "name", <<>>)
        param_type == Attr(element, "type", <<"s","t","r","i","n","g">>)
        min_occurs == Attr(element, "minOccurs", <<"0">>)
        max_occurs == Attr(element, "maxOccurs", <<"1">>)
    IN  IF param_name = <<>> THEN <<>>
        ELSE << [name        |-> param_name,
                 type        |-> param_type,
                 min_occurs  |-> min_occurs,
                 max_occurs  |-> max_occurs,
                 is_required |-> (min_occurs = <<"1">>),
                 is_array    |-> (max_occurs # <<"1">>)] >>

\* the result is <<>> for None and <<param>> for a parameter
_parse_parameter_element(element) ==
    LET param_name == Attr(element, "name", <<>>)
        param_type == Attr(element, "type", <<"s","t","r","i","n","g">>)
        min_occurs == Attr(element, "minOccurs", <<"1">>)
        max_occurs == Attr(element, "maxOccurs", <<"1">>)
    IN  IF param_name = <<>> THEN <<>>
        ELSE << [name        |-> param_name,
                 type        |-> param_type,
                 min_occurs  |-> min_occurs,
                 max_occurs  |-> max_occurs,
                 is_required |-> (min_occurs = <<"1">>),
                 is_array    |-> (max_occurs # <<"1">>)] >>

\* re.sub(r'[^a-zA-Z0-9]', ' ', name)
CleanName(name) ==
    [i \in 1..Len(name) |-> IF IsAlnum(name[i]) THEN name[i] ELSE " "]

\* ''.join(word.capitalize() for word in clean_name.split())
_normalize_parameter_name(name) ==
    LET clean == CleanName(name)
        cased == [i \in 1..Len(clean) |->
                    IF clean[i] = " " THEN " "
                    ELSE IF i = 1 \/ clean[i - 1] = " " THEN UpperChar(clean[i])
                    ELSE LowerChar(clean[i])]
    IN  SelectSeq(cased, LAMBDA c : c # " ")

\* ' '.join(word.capitalize() for word in clean_name.split()): a run of
\* blanks between two words becomes one blank, the others are dropped
_format_display_name(name) ==
    LET clean == CleanName(name)
        cased == [i \in 1..Len(clean) |->
                    IF clean[i] = " "
                    THEN IF /\ i > 1 /\ clean[i - 1] # " "
                            /\ \E j \in (i + 1)..Len(clean) : clean[j] # " "
                         THEN " " ELSE ""
                    ELSE IF i = 1 \/ clean[i - 1] = " " THEN UpperChar(clean[i])
                    ELSE LowerChar(clean[i])]
    IN  SelectSeq(cased, LAMBDA c : c # "")

\* type_mapping.get(xml_type.lower(), 'string')
_map_xml_type_to_csharp(xml_type) ==
    LET t == Lower(xml_type)
    IN  IF t = <<"s","t","r","i","n","g">> THEN "string"
        ELSE IF t = <<"d","e","c","i","m","a","l">> THEN "decimal"
        ELSE IF t \in {<<"i","n","t">>, <<"i","n","t","e","g","e","r">>} THEN "int"
        ELSE IF t = <<"b","o","o","l","e","a","n">> THEN "bool"
        ELSE IF t \in {<<"d","a","t","e">>, <<"d","a","t","e","t","i","m","e">>} THEN "DateTime"
        ELSE IF t = <<"d","o","u","b","l","e">> THEN "double"
        ELSE IF t = <<"f","l","o","a","t">> THEN "float"
        ELSE IF t = <<"l","o","n","g">> THEN "long"
        ELSE IF t = <<"s","h","o","r","t">> THEN "short"
        ELSE IF t = <<"b","y","t","e">> THEN "byte"
        ELSE "string"

fp_dropdown_indicators == <<
    <<"a","c","c","o","u","n","t">>, <<"c","o","d","e">>, <<"t","y","p","e">>, <<"c","a","t","e","g","o","r","y">>, <<"s","t","a","t","u","s">>, <<"s","o","u","r","c","e">>, <<"i","t","e","m">>,
    <<"v","o","t","e">>, <<"d","i","m","e","n","s","i","o","n">>, <<"g","l">>, <<"v","e","n","d","o","r">>, <<"c","u","s","t","o","m","e","r">>, <<"e","m","p","l","o","y","e","e">>,
    <<"d","e","p","a","r","t","m","e","n","t">>, <<"c","o","u","n","t","y">>, <<"s","u","b","c","o","u","n","t","y">>, <<"r","e","q","u","e","s","t","s","o","u","r","c","e">> >>

fp_is_dropdown_field(param_name) == AnyIn(fp_dropdown_indicators, param_name)

fp_date_indicators == <<
    <<"d","a","t","e">>, <<"t","i","m","e">>, <<"c","r","e","a","t","e","d">>, <<"m","o","d","i","f","i","e","d">>, <<"s","t","a","r","t">>, <<"e","n","d">> >>

fp_is_date_field(param_name, xml_type) ==
    \/ Lower(xml_type) \in {<<"d","a","t","e">>, <<"d","a","t","e","t","i","m","e">>}
    \/ AnyIn(fp_date_indicators, param_name)

fp_amount_indicators == <<
    <<"a","m","o","u","n","t">>, <<"t","o","t","a","l">>, <<"c","o","s","t">>, <<"p","r","i","c","e">>, <<"v","a","l","u","e">>, <<"s","u","m">>, <<"b","a","l","a","n","c","e">> >>

fp_is_amount_field(param_name) == AnyIn(fp_amount_indicators, param_name)

fp_generate_description(param_name, xml_type) ==
    IF fp_is_date_field(param_name, xml_type) THEN "Date field"
    ELSE IF fp_is_amount_field(param_name) THEN "Amount field"
    ELSE IF fp_is_dropdown_field(param_name) THEN "Selection field"
    ELSE IF xml_type = <<"b","o","o","l","e","a","n">> THEN "Boolean indicator"
    ELSE "Input field"

\* FunctionParser.get_parameters
get_parameters(params) ==
    [i \in 1..Len(params) |->
        [name          |-> params[i].name,
         original_name |-> params[i].name,
         csharp_name   |-> _normalize_parameter_name(params[i].name),
         display_name  |-> _format_display_name(params[i].name),
         type          |-> _map_xml_type_to_csharp(params[i].type),
         xml_type      |-> params[i].type,
         is_required   |-> params[i].is_required,
         is_array      |-> params[i].is_array,
         is_dropdown   |-> fp_is_dropdown_field(params[i].name),
         is_date       |-> fp_is_date_field(params[i].name, params[i].type),
         is_amount     |-> fp_is_amount_field(params[i].name),
         description   |-> fp_generate_description(params[i].name, params[i].type)]]

\* the parameters one FunctionParser.parse() appends
ParsedElements(elements) ==
    Flatten([i \in 1..Len(elements) |-> _parse_parameter_element(elements[i])])

\* ------------------------------------------------------------------------
\* CodeGenerator
\* ------------------------------------------------------------------------
docno_indicators == << <<"d","o","c","n","o">>, <<"d","o","c","u","m","e","n","t","n","o">>, <<"n","o">>, <<"c","o","d","e">> >>

\* variant: a name that contains an indicator counts
_has_docno_parameter_substring(params) ==
    \E i \in 1..Len(params) :
        \E k \in 1..Len(docno_indicators) :
            Contains(docno_indicators[k], Lower(params[i].name))

_has_docno_parameter(params) ==
    \E i \in 1..Len(params) :
        \E k \in 1..Len(docno_indicators) :
            Lower(params[i].name) = docno_indicators[k]

\* ------------------------------------------------------------------------
\* ODataParser.parse_function_parameters: an element of the definition is a
\* dict with the keys @name, @type, @minOccurs, or a str, which counts as
\* the name of an element without further keys
\* ------------------------------------------------------------------------
\* ''.join(word.capitalize() for word in clean_name.split('_'))
_normalize_function_param_name(name) ==
    LET clean == SelectSeq(name, IsWordChar)
        cased == [i \in 1..Len(clean) |->
                    IF clean[i] = "_" THEN "_"
                    ELSE IF i = 1 \/ clean[i - 1] = "_" THEN UpperChar(clean[i])
                    ELSE LowerChar(clean[i])]
    IN  SelectSeq(cased, LAMBDA c : c # "_")

\* ' '.join(word.capitalize() for word in name.split('_'))
_format_function_display_name(name) == _format_label([s |-> name])

dropdown_indicators == <<
    <<"a","c","c","o","u","n","t">>, <<"c","o","d","e">>, <<"t","y","p","e">>, <<"c","a","t","e","g","o","r","y">>, <<"s","t","a","t","u","s">>, <<"s","o","u","r","c","e">>, <<"i","t","e","m">>,
    <<"v","o","t","e">>, <<"d","i","m","e","n","s","i","o","n">>, <<"g","l">>, <<"v","e","n","d","o","r">>, <<"c","u","s","t","o","m","e","r">>, <<"e","m","p","l","o","y","e","e">>,
    <<"d","e","p","a","r","t","m","e","n","t">> >>

_is_dropdown_field(param_name) == AnyIn(dropdown_indicators, param_name)

FunctionParameter(element) ==
    LET param_name == Attr(element, "name", <<>>)
        param_type == Attr(element, "type", <<"s","t","r","i","n","g">>)
        min_occurs == Attr(element, "minOccurs", <<"1">>)
        csharp_type == _map_xml_type_to_csharp(param_type)
    IN  IF param_name = <<>> THEN <<>>
        ELSE << [name          |-> param_name,
                 original_name |-> param_name,
                 csharp_name   |-> _normalize_function_param_name(param_name),
                 display_name  |-> _format_function_display_name(param_name),
                 type          |-> csharp_type,
                 xml_type      |-> param_type,
                 is_required   |-> (min_occurs = <<"1">>),
                 is_dropdown   |-> _is_dropdown_field(param_name),
                 is_date       |-> (csharp_type = "DateTime"),
                 is_amount     |-> _is_amount_field(StrKey(param_name))] >>

parse_function_parameters(elements) ==
    Flatten([i \in 1..Len(elements) |-> FunctionParameter(elements[i])])

\* ------------------------------------------------------------------------
\* Parameter lists handed to FunctionParser and parse_function_parameters
\* ------------------------------------------------------------------------
None == <<>>

Some(text) == <<text>>

ElementPool == <<
    Element(Some(<<"D","o","c","N","o">>),       Some(<<"s","t","r","i","n","g">>),   Some(<<"1">>),  None),
    Element(Some(<<"A","m","o","u","n","t">>),      Some(<<"d","e","c","i","m","a","l">>),  Some(<<"0">>),  None),
    Element(Some(<<"S","t","a","r","t","P","o","i","n","t">>),  Some(<<"s","t","r","i","n","g">>),   None,        None),
    Element(Some(<<"P","o","s","t","i","n","g","D","a","t","e">>), Some(<<"d","a","t","e","T","i","m","e">>), Some(<<"0","1">>), None),
    Element(Some(<<"I","t","e","m","C","o","d","e">>),    None,              Some(<<"1">>),  Some(<<"u","n","b","o","u","n","d","e","d">>)),
    Element(Some(<<"N","o","t","e","s">>),       Some(<<"s","t","r","i","n","g">>),   Some(<<"0">>),  None),
    Element(None,                 Some(<<"s","t","r","i","n","g">>),   Some(<<"1">>),  None),
    Element(Some(<<"D","u","e">>),         Some(<<"D","a","t","e">>),     None,        None),
    Element(Some(<<"C","o","d","e">>),        Some(<<"i","n","t">>),      Some(<<"1">>),  Some(<<"1">>)),
    Element(Some(<<>>),           Some(<<"b","o","o","l","e","a","n">>),  Some(<<"1">>),  None) >>

\* the element lists of at most n elements
RECURSIVE ElementLists(_)
ElementLists(n) ==
    IF n = 0 THEN {<<>>}
    ELSE LET shorter == ElementLists(n - 1)
         IN  shorter \cup {Append(l, ElementPool[k]) :
                              l \in shorter, k \in 1..Len(ElementPool)}

\* ------------------------------------------------------------------------
\* State
\*   one ODataParser instance: odata, properties, document_info; calls counts
\*     its parse() calls, outcome is how the last one ended and runs counts
\*     the completed runs of _identify_document_structure on the present
\*     descriptor list
\*   one FunctionParser instance: xml_elements (the element children of the
\*     sequence of its XML text), parameters; fcalls counts its parse() calls;
\*     context is the template context built by
\*     generate_function_header_code and od_parameters the list returned by
\*     ODataParser.parse_function_parameters
\*   the service: requests (the samples of the received /generate-full
\*     requests, or the bodies of the received function requests), parsers
\*     (the parser each handled request built) and responses
\* ------------------------------------------------------------------------
VARIABLES odata, properties, document_info, calls, outcome, runs,
          xml_elements, parameters, fcalls, context, od_parameters,
          requests, parsers, responses

odataVars == <<odata, properties, document_info, calls, outcome, runs>>

functionVars == <<xml_elements, parameters, fcalls, context, od_parameters>>

serviceVars == <<requests, parsers, responses>>

vars == <<odataVars, functionVars, serviceVars>>

\* no FunctionParser in use
FunctionIdle ==
    /\ xml_elements = <<>>
    /\ parameters = <<>>
    /\ fcalls = 0
    /\ context = <<>>
    /\ od_parameters = <<>>

\* no request received
ServiceIdle ==
    /\ requests = <<>>
    /\ parsers = <<>>
    /\ responses = <<>>

\* ODataParser.__init__
ODataParser_init(sample) ==
    /\ odata = sample
    /\ properties = <<>>
    /\ document_info = <<>>
    /\ calls = 0
    /\ outcome = "constructed"
    /\ runs = 0

Init ==
    /\ \E sample \in Samples : ODataParser_init(sample)
    /\ FunctionIdle
    /\ ServiceIdle

\* the items of the sample before the first one whose key makes
\* _normalize_property_name raise
FirstRaising(items) ==
    IF \E i \in 1..Len(items) : NormalizeRaises(items[i][1])
    THEN CHOOSE i \in 1..Len(items) :
            /\ NormalizeRaises(items[i][1])
            /\ \A j \in 1..(i - 1) : ~NormalizeRaises(items[j][1])
    ELSE Len(items) + 1

Props(items) == [i \in 1..Len(items) |-> Prop(items[i][1], items[i][2])]

\* variant: parse() starts from an empty descriptor list
ParseReturns_from_empty ==
    /\ calls < MaxParseCalls
    /\ FirstRaising(odata) > Len(odata)
    /\ properties' = Props(odata)
    /\ document_info' = _identify_document_structure(properties')
    /\ calls' = calls + 1
    /\ outcome' = "returned"
    /\ runs' = 1
    /\ UNCHANGED <<odata, functionVars, serviceVars>>

\* ODataParser.parse(): the loop appends one descriptor per item; an
\* exception leaves the loop, skips _identify_document_structure and is
\* raised again to the caller
ParseReturns ==
    /\ calls < MaxParseCalls
    /\ FirstRaising(odata) > Len(odata)
    /\ properties' = properties \o Props(odata)
    /\ document_info' = _identify_document_structure(properties')
    /\ calls' = calls + 1
    /\ outcome' = "returned"
    /\ runs' = 1
    /\ UNCHANGED <<odata, functionVars, serviceVars>>

ParseRaises ==
    /\ calls < MaxParseCalls
    /\ FirstRaising(odata) <= Len(odata)
    /\ properties' = properties \o Props(SubSeq(odata, 1, FirstRaising(odata) - 1))
    /\ calls' = calls + 1
    /\ outcome' = "raised"
    /\ runs' = IF properties' = properties THEN runs ELSE 0
    /\ UNCHANGED <<odata, document_info, functionVars, serviceVars>>

parse == ParseReturns \/ ParseRaises

\* variant: the new selection is appended to the stored one
identify_accumulating ==
    /\ runs < MaxRuns
    /\ document_info' =
          LET new == _identify_document_structure(properties)
              old == IF "datatable_properties" \in DOMAIN document_info
                     THEN document_info.datatable_properties ELSE <<>>
          IN  [new EXCEPT !.datatable_properties = old \o @]
    /\ runs' = runs + 1
    /\ UNCHANGED <<odata, properties, calls, outcome, functionVars, serviceVars>>

\* a run of ODataParser._identify_document_structure on the instance as it is
identify ==
    /\ runs < MaxRuns
    /\ document_info' = _identify_document_structure(properties)
    /\ runs' = runs + 1
    /\ UNCHANGED <<odata, properties, calls, outcome, functionVars, serviceVars>>

Next == parse

Spec == Init /\ [][Next]_vars

\* ------------------------------------------------------------------------
\* The parameter path
\* ------------------------------------------------------------------------
\* FunctionParser.parse(): every named element is appended to parameters
FunctionParser_parse ==
    /\ fcalls < MaxParseCalls
    /\ parameters' = parameters \o ParsedElements(xml_elements)
    /\ fcalls' = fcalls + 1
    /\ UNCHANGED <<xml_elements, context, od_parameters, odataVars, serviceVars>>

\* CodeGenerator.generate_function_header_code on the XML text: a new
\* FunctionParser is built and parsed, and the context of the templates holds
\* its parameters and the line-function flag
generate_function_header_code ==
    /\ context = <<>>
    /\ LET params == get_parameters(ParsedElements(xml_elements))
       IN  context' = [parameters      |-> params,
                       has_docno_param |-> _has_docno_parameter(params)]
    /\ UNCHANGED <<xml_elements, parameters, fcalls, od_parameters,
                   odataVars, serviceVars>>

\* a call of ODataParser.parse_function_parameters on the same elements;
\* od_parameters is <<>> before the call and <<the returned list>> after it
CallParseFunctionParameters ==
    /\ od_parameters = <<>>
    /\ od_parameters' = <<parse_function_parameters(xml_elements)>>
    /\ UNCHANGED <<xml_elements, parameters, fcalls, context,
                   odataVars, serviceVars>>

ParamInit ==
    /\ xml_elements \in ElementLists(MaxParams)
    /\ parameters = <<>>
    /\ fcalls = 0
    /\ context = <<>>
    /\ od_parameters = <<>>
    /\ ODataParser_init(<<>>)
    /\ ServiceIdle

ParamNext ==
    \/ FunctionParser_parse
    \/ generate_function_header_code
    \/ CallParseFunctionParameters

ParamSpec == ParamInit /\ [][ParamNext]_vars

\* ------------------------------------------------------------------------
\* Instances that are used again: parse() and _identify_document_structure
\* called repeatedly on one ODataParser, parse() on one FunctionParser
\* ------------------------------------------------------------------------
SmallSamples == {SubSeq(WidePool, i, i + 3) : i \in {1, 3, 6, 9, 11, 13, 17, 20}}

SmallElementLists == {SubSeq(ElementPool, 1, k) : k \in 0..Len(ElementPool)}

ReuseInit ==
    /\ \E sample \in SmallSamples : ODataParser_init(sample)
    /\ xml_elements \in SmallElementLists
    /\ parameters = <<>>
    /\ fcalls = 0
    /\ context = <<>>
    /\ od_parameters = <<>>
    /\ ServiceIdle

ReuseNext == parse \/ identify \/ FunctionParser_parse

ReuseSpec == ReuseInit /\ [][ReuseNext]_vars

\* ------------------------------------------------------------------------
\* The service: /generate-full requests handled by one process. The handler
\* is a coroutine without an await, so it runs from start to end before the
\* next one starts; the requests are handled in any order. The module-level
\* CodeGenerator holds the template environment only.
\* ------------------------------------------------------------------------
Requests == 1..NumRequests

Pending == [status |-> 0, metadata |-> <<>>]

\* variant: properties is one list shared by all instances
NewParser_shared_properties(sample) ==
    [odata         |-> sample,
     properties    |-> Flatten([r \in 1..Len(parsers) |->
                          IF parsers[r] = <<>> THEN <<>>
                          ELSE parsers[r].properties]),
     document_info |-> <<>>,
     outcome       |-> "constructed"]

\* ODataParser(sample): the instance after __init__
NewParser(sample) ==
    [odata         |-> sample,
     properties    |-> <<>>,
     document_info |-> <<>>,
     outcome       |-> "constructed"]

\* the instance after parse()
Parsed(inst) ==
    LET first == FirstRaising(inst.odata)
    IN  IF first > Len(inst.odata)
        THEN LET props == inst.properties \o Props(inst.odata)
             IN  [inst EXCEPT !.properties = props,
                              !.document_info = _identify_document_structure(props),
                              !.outcome = "returned"]
        ELSE [inst EXCEPT !.properties =
                              @ \o Props(SubSeq(inst.odata, 1, first - 1)),
                          !.outcome = "raised"]

\* [f.get('original_name') for f in fields]
Names(props) == [i \in 1..Len(props) |-> props[i].original_name]

\* dict.get(entry, <<>>) on document_info
Entry(info, entry) == IF entry \in DOMAIN info THEN info[entry] ELSE <<>>

\* the response of the handler: 200 with the metadata, or 400 when parse()
\* raised
Response(inst) ==
    IF inst.outcome = "raised" THEN [status |-> 400, metadata |-> <<>>]
    ELSE [status   |-> 200,
          metadata |->
            [primary_key        |-> Entry(inst.document_info, "primary_key"),
             user_filter_fields |->
                 Names(Entry(inst.document_info, "user_filter_fields")),
             datatable_fields   |->
                 Names(Entry(inst.document_info, "datatable_properties"))]]

generate_full_code(r) ==
    /\ responses[r] = Pending
    /\ LET parser == Parsed(NewParser(requests[r]))
       IN  /\ parsers' = [parsers EXCEPT ![r] = parser]
           /\ responses' = [responses EXCEPT ![r] = Response(parser)]
    /\ UNCHANGED <<requests, odataVars, functionVars>>

RequestSamples == SmallSamples

ServiceInit ==
    /\ requests \in [Requests -> RequestSamples]
    /\ parsers = [r \in Requests |-> <<>>]
    /\ responses = [r \in Requests |-> Pending]
    /\ ODataParser_init(<<>>)
    /\ FunctionIdle

ServiceNext == \E r \in Requests : generate_full_code(r)

ServiceSpec == ServiceInit /\ [][ServiceNext]_vars

\* ------------------------------------------------------------------------
\* The service: /generate-function-header and /generate-function-line
\* requests. The function_definition of a request body is a JSON value: a
\* mapping or a text. A text is an XML document, of which the model keeps
\* whether it is well formed and the element children of its sequence; a
\* mapping is kept with the elements listed in it.
\* ------------------------------------------------------------------------
MappingDefinition(elements) ==
    [kind |-> "dict", well_formed |-> TRUE, elements |-> elements]

TextDefinition(elements) ==
    [kind |-> "str", well_formed |-> TRUE, elements |-> elements]

MalformedText == [kind |-> "str", well_formed |-> FALSE, elements |-> <<>>]

DefinitionElements ==
    {<<>>, SubSeq(ElementPool, 1, 2), SubSeq(ElementPool, 3, 7)}

FunctionDefinitions ==
    {MappingDefinition(l) : l \in DefinitionElements}
        \cup {TextDefinition(l) : l \in DefinitionElements}
        \cup {MalformedText}

FunctionRequestBodies ==
    [endpoint : {"header", "line"}, function_definition : FunctionDefinitions]

\* variant: the request models take a function_definition of any type
FunctionRequestAccepted_any_type(body) ==
    body.function_definition.kind \in {"dict", "str"}

\* FunctionHeaderRequest, FunctionLineRequest: function_definition is
\* declared Dict[str, Any], so a body is accepted iff it carries a mapping
FunctionRequestAccepted(body) ==
    body.function_definition.kind = "dict"

\* FunctionParser._clean_xml: re.sub raises TypeError on anything but text;
\* the result is <<>> when it raises and <<the cleaned text>> otherwise
_clean_xml(xml_string) ==
    IF xml_string.kind = "str" THEN <<xml_string>> ELSE <<>>

\* FunctionParser(xml_string) after parse(): the exception of _clean_xml or
\* of ET.fromstring leaves the try block before any parameter is appended
FunctionParserParsed(xml_string) ==
    LET clean_xml == _clean_xml(xml_string)
    IN  IF clean_xml = <<>> \/ ~clean_xml[1].well_formed
        THEN [xml_string |-> xml_string, parameters |-> <<>>,
              outcome |-> "raised"]
        ELSE [xml_string |-> xml_string,
              parameters |-> ParsedElements(clean_xml[1].elements),
              outcome |-> "returned"]

\* generate_function_header_code / generate_function_line_code: <<>> when
\* the parser raised, else <<the context the templates are rendered from>>
FunctionCode(parser) ==
    IF parser.outcome = "raised" THEN <<>>
    ELSE LET params == get_parameters(parser.parameters)
         IN  << [parameters      |-> params,
                 has_docno_param |-> _has_docno_parameter(params)] >>

FunctionPending == [status |-> 0, code |-> <<>>]

\* the response of a function handler: 200 with the code, or 400 when the
\* generator raised
FunctionResponse(parser) ==
    IF FunctionCode(parser) = <<>> THEN [status |-> 400, code |-> <<>>]
    ELSE [status |-> 200, code |-> FunctionCode(parser)]

\* the handler of /generate-function-header, run on an accepted request
generate_function_header(r) ==
    /\ responses[r] = FunctionPending
    /\ requests[r].endpoint = "header"
    /\ FunctionRequestAccepted(requests[r])
    /\ LET parser == FunctionParserParsed(requests[r].function_definition)
       IN  /\ parsers' = [parsers EXCEPT ![r] = <<parser>>]
           /\ responses' = [responses EXCEPT ![r] = FunctionResponse(parser)]
    /\ UNCHANGED <<requests, odataVars, functionVars>>

\* the handler of /generate-function-line, run on an accepted request
generate_function_line(r) ==
    /\ responses[r] = FunctionPending
    /\ requests[r].endpoint = "line"
    /\ FunctionRequestAccepted(requests[r])
    /\ LET parser == FunctionParserParsed(requests[r].function_definition)
       IN  /\ parsers' = [parsers EXCEPT ![r] = <<parser>>]
           /\ responses' = [responses EXCEPT ![r] = FunctionResponse(parser)]
    /\ UNCHANGED <<requests, odataVars, functionVars>>

\* a body that does not fit the request model is answered 422 by the
\* framework and the handler does not run
RejectFunctionRequest(r) ==
    /\ responses[r] = FunctionPending
    /\ ~FunctionRequestAccepted(requests[r])
    /\ responses' = [responses EXCEPT ![r] = [status |-> 422, code |-> <<>>]]
    /\ UNCHANGED <<requests, parsers, odataVars, functionVars>>

FunctionServiceInit ==
    /\ requests \in [Requests -> FunctionRequestBodies]
    /\ parsers = [r \in Requests |-> <<>>]
    /\ responses = [r \in Requests |-> FunctionPending]
    /\ ODataParser_init(<<>>)
    /\ FunctionIdle

FunctionServiceNext ==
    \E r \in Requests :
        \/ generate_function_header(r)
        \/ generate_function_line(r)
        \/ RejectFunctionRequest(r)

FunctionServiceSpec == FunctionServiceInit /\ [][FunctionServiceNext]_vars

\* ------------------------------------------------------------------------
\* Observations shared by the properties
\* ------------------------------------------------------------------------
\* parser.document_info.get('datatable_properties', [])
DatatableFields ==
    IF "datatable_properties" \in DOMAIN document_info
    THEN document_info.datatable_properties ELSE <<>>

\* the sample item the i-th descriptor of properties was built from
ItemOf(i) == odata[((i - 1) % (FirstRaising(odata) - 1)) + 1]

KeyOf(i) == ItemOf(i)[1]

ValueOf(i) == ItemOf(i)[2]

FirstParseReturned == calls = 1 /\ outcome = "returned"

SampleKeys == [i \in 1..Len(odata) |-> odata[i][1]]

\* ------------------------------------------------------------------------
\* C1: after a parse of any sample, datatable_fields holds each field
\* descriptor at most once and is no longer than the sample has fields.
\* ------------------------------------------------------------------------
C1_DatatableHasNoDuplicates ==
    FirstParseReturned =>
        /\ \A i, j \in 1..Len(DatatableFields) :
              i # j => DatatableFields[i] # DatatableFields[j]
        /\ Len(DatatableFields) <= Len(odata)

\* ------------------------------------------------------------------------
\* C2: datatable_fields never holds more than 8 descriptors.
\* ------------------------------------------------------------------------
C2_DatatableAtMostEight == Len(DatatableFields) <= 8

C2_Witness ==
    /\ FirstParseReturned
    /\ Len(odata) > 8
    /\ Len(DatatableFields) = 8

\* ------------------------------------------------------------------------
\* C3: when some field is primary-key-flagged, the first primary-key-flagged
\* field in input order is the first element of datatable_fields.
\* ------------------------------------------------------------------------
C3_PrimaryKeyFirst ==
    outcome = "returned" =>
        \A i \in 1..Len(properties) :
            ( /\ properties[i].is_primary_key
              /\ \A j \in 1..(i - 1) : ~properties[j].is_primary_key )
            => /\ Len(DatatableFields) >= 1
               /\ DatatableFields[1] = properties[i]

C3_Witness ==
    /\ FirstParseReturned
    /\ \E i, j, k \in 1..Len(properties) :
          /\ i < j /\ j < k
          /\ properties[i].is_date /\ ~properties[i].is_primary_key
          /\ properties[j].is_primary_key
          /\ properties[k].is_primary_key
          /\ properties[k] # properties[j]
          /\ DatatableFields[1] = properties[j]

\* ------------------------------------------------------------------------
\* C4: datatable_fields equals the ranked reference selection in which every
\* category takes only fields not already selected; the sample
\* {DocNo, Amount, IsPosted, CreatedDate} gives
\* [DocNo, CreatedDate, Amount, IsPosted].
\* ------------------------------------------------------------------------
\* sel extended by at most n fields of props that have the flag and are not
\* in sel yet, in input order
AddUnselected(sel, props, flag, n) ==
    sel \o Take(SelectSeq(props, LAMBDA p : p[flag] /\ ~In(p, sel)), n)

RankedReference(props) ==
    LET keys == Flagged(props, "is_primary_key")
        s1 == Take(keys, 1)
        s2 == AddUnselected(s1, props, "is_date", 2)
        s3 == AddUnselected(s2, props, "is_amount", 2)
        s4 == AddUnselected(s3, props, "is_status", 1)
        s5 == AddUnselected(s4, props, "is_boolean", 1)
    IN  s5 \o Take(SelectSeq(props,
                     LAMBDA p : ~p.is_primary_key /\ ~In(p, s5)), 8 - Len(s5))

Scenario1Keys ==
    << StrKey(<<"D","o","c","N","o">>), StrKey(<<"A","m","o","u","n","t">>),
       StrKey(<<"I","s","P","o","s","t","e","d">>), StrKey(<<"C","r","e","a","t","e","d","D","a","t","e">>) >>

Scenario1Datatable ==
    << StrKey(<<"D","o","c","N","o">>), StrKey(<<"C","r","e","a","t","e","d","D","a","t","e">>),
       StrKey(<<"A","m","o","u","n","t">>), StrKey(<<"I","s","P","o","s","t","e","d">>) >>

C4_DatatableIsRankedReference ==
    FirstParseReturned =>
        /\ DatatableFields = RankedReference(properties)
        /\ SampleKeys = Scenario1Keys =>
              Names(DatatableFields) = Scenario1Datatable

\* ------------------------------------------------------------------------
\* C5: a failure while classifying one field is contained to that field:
\* parse() completes, the failing field gets the degraded descriptor (type
\* object, no role flag, empty description) and every other key gets its
\* normal descriptor.
\* ------------------------------------------------------------------------
DegradedProp(p) ==
    /\ p.type = "object"
    /\ p.description = ""
    /\ ~p.is_primary_key /\ ~p.is_date /\ ~p.is_amount
    /\ ~p.is_status /\ ~p.is_user_related /\ ~p.is_boolean

C5_FieldFailureIsContained ==
    calls = 1 =>
        /\ outcome = "returned"
        /\ Len(properties) = Len(odata)
        /\ \A i \in 1..Len(odata) :
              /\ i <= Len(properties)
              /\ properties[i].original_name = odata[i][1]
              /\ IF NormalizeRaises(odata[i][1])
                 THEN DegradedProp(properties[i])
                 ELSE properties[i] = Prop(odata[i][1], odata[i][2])

\* ------------------------------------------------------------------------
\* C6: after one parse() on a fresh parser the descriptor list has exactly
\* one descriptor per key of the sample, in the sample's key order.
\* ------------------------------------------------------------------------
C6_OneDescriptorPerKey ==
    calls = 1 => Names(properties) = SampleKeys

\* ------------------------------------------------------------------------
\* C7 as stated: is_boolean is true iff the name has a boolean indicator OR
\* the value is a literal boolean, a number in {0,1} or one of the strings
\* true/false/yes/no.
\* ------------------------------------------------------------------------
ClaimedBooleanValue(value) ==
    \/ value.kind = "bool"
    \/ IsNumber(value) /\ InZeroOne(value)
    \/ /\ value.kind = "str"
       /\ Lower(value.s) \in {<<"t","r","u","e">>, <<"f","a","l","s","e">>, <<"y","e","s">>, <<"n","o">>}

C7_BooleanIsNameOrValue ==
    \A i \in 1..Len(properties) :
        properties[i].is_boolean <=>
            (NameSuggestsBoolean(KeyOf(i)) \/ ClaimedBooleanValue(ValueOf(i)))

\* ------------------------------------------------------------------------
\* C7 as amended: is_boolean is true iff the name has a boolean indicator
\* AND the value is a literal boolean, a number in {0,1} or one of the
\* strings true/false/yes/no/y/n; is_active with value 2 and a literal
\* boolean under a name without indicator are both not flagged.
\* ------------------------------------------------------------------------
C7_BooleanIsNameAndValue ==
    \A i \in 1..Len(properties) :
        properties[i].is_boolean <=>
            (NameSuggestsBoolean(KeyOf(i)) /\ ValueIsBoolean(ValueOf(i)))

C7_Witness ==
    /\ FirstParseReturned
    /\ \E i, j, k \in 1..Len(properties) :
          /\ KeyOf(i) = StrKey(<<"i","s","_","a","c","t","i","v","e">>) /\ ValueOf(i) = IntVal(2)
          /\ ~properties[i].is_boolean
          /\ ValueOf(j).kind = "bool" /\ ~NameSuggestsBoolean(KeyOf(j))
          /\ ~properties[j].is_boolean
          /\ properties[k].is_boolean

\* ------------------------------------------------------------------------
\* C8: every descriptor with is_boolean = true has type bool.
\* ------------------------------------------------------------------------
C8_BooleanFlagGivesBool ==
    \A i \in 1..Len(properties) :
        properties[i].is_boolean => properties[i].type = "bool"

\* ------------------------------------------------------------------------
\* C9 as stated: every descriptor with is_boolean = false and is_date = true
\* has type DateTime.
\* ------------------------------------------------------------------------
C9_DateFlagGivesDateTime ==
    \A i \in 1..Len(properties) :
        (~properties[i].is_boolean /\ properties[i].is_date)
            => properties[i].type = "DateTime"

\* ------------------------------------------------------------------------
\* C9 as amended: a descriptor with is_boolean = false and is_date = true
\* has type DateTime iff its value is a string that fully matches a date
\* pattern and its name holds one of date, created, modified, start, end,
\* expir; a null value on such a field is typed object and a number int or
\* decimal.
\* ------------------------------------------------------------------------
DatePatternedText(value) ==
    /\ value.kind = "str"
    /\ \/ MatchWhole(PatYMD, value.s)
       \/ MatchPrefix(PatYMDTime("T"), value.s)
       \/ MatchPrefix(PatYMDTime(" "), value.s)
       \/ MatchWhole(PatMDY, value.s)

C9_DateTimeNeedsDateTextAndDateName ==
    \A i \in 1..Len(properties) :
        (~properties[i].is_boolean /\ properties[i].is_date) =>
            /\ properties[i].type = "DateTime" <=>
                  /\ DatePatternedText(ValueOf(i))
                  /\ AnyIndicatorIn(date_field_indicators, KeyOf(i))
            /\ ValueOf(i).kind = "NoneType" => properties[i].type = "object"
            /\ ValueOf(i).kind \in {"int", "float"} =>
                  properties[i].type \in {"int", "decimal"}

C9_Witness ==
    /\ FirstParseReturned
    /\ \E i, j, k \in 1..Len(properties) :
          /\ properties[i].is_date /\ properties[i].type = "DateTime"
          /\ properties[j].is_date /\ ValueOf(j).kind = "NoneType"
          /\ properties[j].type = "object"
          /\ properties[k].is_date /\ DatePatternedText(ValueOf(k))
          /\ properties[k].type = "string"

\* ------------------------------------------------------------------------
\* C10 as stated: an integer 0 or 1 under a name without boolean indicator
\* is typed int; Quantity with value 1 is typed int.
\* ------------------------------------------------------------------------
PlainZeroOne(i) ==
    /\ ValueOf(i).kind = "int"
    /\ InZeroOne(ValueOf(i))
    /\ ~NameSuggestsBoolean(KeyOf(i))

C10_ZeroOneIsInteger ==
    \A i \in 1..Len(properties) :
        PlainZeroOne(i) => properties[i].type = "int"

\* ------------------------------------------------------------------------
\* C10 as amended: an integer 0 or 1 under a name without boolean indicator
\* is never typed bool: it is typed decimal when the name is amount-flagged
\* and int otherwise; Quantity with value 1 is amount-flagged and typed
\* decimal.
\* ------------------------------------------------------------------------
C10_ZeroOneIsIntegerOrAmount ==
    \A i \in 1..Len(properties) :
        PlainZeroOne(i) =>
            /\ properties[i].type =
                  IF properties[i].is_amount THEN "decimal" ELSE "int"
            /\ KeyOf(i) = StrKey(<<"Q","u","a","n","t","i","t","y">>) => properties[i].type = "decimal"

C10_Witness ==
    /\ FirstParseReturned
    /\ \E i, j \in 1..Len(properties) :
          /\ KeyOf(i) = StrKey(<<"Q","u","a","n","t","i","t","y">>) /\ ValueOf(i) = IntVal(1)
          /\ properties[i].type = "decimal"
          /\ PlainZeroOne(j) /\ properties[j].type = "int"

\* parser.document_info.get('primary_key'): <<>> for None or no entry
PrimaryKey ==
    IF "primary_key" \in DOMAIN document_info
    THEN document_info.primary_key ELSE <<>>

\* parser.document_info.get('user_filter_fields', [])
UserFilterFields ==
    IF "user_filter_fields" \in DOMAIN document_info
    THEN document_info.user_filter_fields ELSE <<>>

\* ------------------------------------------------------------------------
\* C11: after parse(), primary_key is the first descriptor in input order
\* with is_primary_key = true and is absent when no descriptor is flagged;
\* a sample without such a field, the empty sample included, does not make
\* parse() raise (parse() raises only on a key that is no str).
\* ------------------------------------------------------------------------
C11_PrimaryKeyIsFirstFlagged ==
    /\ outcome = "returned" =>
          /\ Len(PrimaryKey) <= 1
          /\ \A i \in 1..Len(properties) :
                ( /\ properties[i].is_primary_key
                  /\ \A j \in 1..(i - 1) : ~properties[j].is_primary_key )
                => PrimaryKey = <<properties[i]>>
          /\ (\A i \in 1..Len(properties) : ~properties[i].is_primary_key)
                => PrimaryKey = <<>>
    /\ outcome = "raised" =>
          \E i \in 1..Len(odata) : odata[i][1].kind # "str"
    /\ (calls > 0 /\ odata = <<>>) =>
          (outcome = "returned" /\ PrimaryKey = <<>>)

C11_Witness ==
    /\ FirstParseReturned
    /\ \E i, j \in 1..Len(properties) :
          /\ i < j
          /\ ~properties[1].is_primary_key
          /\ properties[i].is_primary_key
          /\ properties[j].is_primary_key
          /\ properties[j] # properties[i]
          /\ PrimaryKey = <<properties[i]>>

\* ------------------------------------------------------------------------
\* C12: after parse(), user_filter_fields is exactly the subsequence of the
\* descriptor list whose is_user_related flag is true, in input order and
\* without a cap on its length.
\* ------------------------------------------------------------------------
UserPositions == {i \in 1..Len(properties) : properties[i].is_user_related}

C12_UserFilterIsFlaggedSubsequence ==
    outcome = "returned" =>
        /\ Len(UserFilterFields) = Cardinality(UserPositions)
        /\ \A i \in UserPositions :
              UserFilterFields[Cardinality({j \in UserPositions : j <= i})]
                  = properties[i]

C12_Witness ==
    /\ FirstParseReturned
    /\ Len(UserFilterFields) > 8
    /\ Len(DatatableFields) = 8
    /\ Len(UserFilterFields) = Len(properties)

\* ------------------------------------------------------------------------
\* C16: the description is the label of the first matching category in the
\* order primary key, date (Time field for a time-only string value, else
\* Date field), amount, status, boolean, user-related, and empty when none
\* matches; the flags of the lower categories stay set. The sample
\* {Status: "Open"} is described as Document status.
\* ------------------------------------------------------------------------
TimeOnlyText(value) ==
    /\ value.kind = "str"
    /\ \E k \in 1..Len(time_patterns) : MatchWhole(time_patterns[k], value.s)

LabelByPriority(p, value) ==
    IF p.is_primary_key THEN "Primary key identifier"
    ELSE IF p.is_date THEN
        (IF TimeOnlyText(value) THEN "Time field" ELSE "Date field")
    ELSE IF p.is_amount THEN "Monetary amount"
    ELSE IF p.is_status THEN "Document status"
    ELSE IF p.is_boolean THEN "Boolean indicator"
    ELSE IF p.is_user_related THEN "User reference"
    ELSE ""

C16_DescriptionByPriority ==
    \A i \in 1..Len(properties) :
        /\ properties[i].description = LabelByPriority(properties[i], ValueOf(i))
        /\ ( KeyOf(i) = StrKey(<<"S","t","a","t","u","s">>)
             /\ ValueOf(i) = StrVal(<<"O","p","e","n">>) )
           => properties[i].description = "Document status"

C16_Witness ==
    /\ FirstParseReturned
    /\ \E i, j, k \in 1..Len(properties) :
          /\ properties[i].is_primary_key /\ properties[i].is_date
          /\ properties[i].description = "Primary key identifier"
          /\ properties[j].is_date /\ properties[j].is_user_related
          /\ properties[j].description = "Date field"
          /\ properties[k].description = "Time field"

\* ------------------------------------------------------------------------
\* Parameters
\* ------------------------------------------------------------------------
\* the elements a parameter is built from: those with a non-empty name
NamedElements == SelectSeq(xml_elements, LAMBDA e : Attr(e, "name", <<>>) # <<>>)

\* the element the i-th entry of a parameter list was built from; the list
\* of a parser used again repeats the named elements
ElementOf(i) == NamedElements[((i - 1) % Len(NamedElements)) + 1]

\* the parameter lists built so far: the FunctionParser's own, the one in
\* the template context and the one parse_function_parameters returned
ParameterLists ==
    {parameters}
        \cup (IF context = <<>> THEN {} ELSE {context.parameters})
        \cup (IF od_parameters = <<>> THEN {} ELSE {od_parameters[1]})

\* C13 as stated: is_required is true iff the element carries minOccurs with
\* the text "1"; an element without the attribute and an element with "01"
\* give false
C13_RequiredIffMinOccursPresentAndOne ==
    \A list \in ParameterLists : \A i \in 1..Len(list) :
        list[i].is_required <=> (ElementOf(i).minOccurs = Some(<<"1">>))

\* C13 amended: is_required is true iff the element has no minOccurs
\* attribute or its minOccurs is the text "1"; any other text, "01" and "0"
\* included, gives false
C13_RequiredIffMinOccursAbsentOrOne ==
    \A list \in ParameterLists : \A i \in 1..Len(list) :
        list[i].is_required <=> (ElementOf(i).minOccurs \in {None, Some(<<"1">>)})

\* both parsers have built a required parameter from an element without
\* minOccurs and a parameter that is not required from minOccurs = "01"
C13_Witness ==
    /\ fcalls >= 1
    /\ od_parameters # <<>>
    /\ \A list \in {parameters, od_parameters[1]} :
          /\ \E i \in 1..Len(list) :
                ElementOf(i).minOccurs = None /\ list[i].is_required
          /\ \E i \in 1..Len(list) :
                ElementOf(i).minOccurs = Some(<<"0","1">>) /\ ~list[i].is_required

\* the lists of parameter descriptors built so far: the one in the template
\* context (FunctionParser.get_parameters) and the one
\* parse_function_parameters returned
DescriptorLists ==
    (IF context = <<>> THEN {} ELSE {context.parameters})
        \cup (IF od_parameters = <<>> THEN {} ELSE {od_parameters[1]})

\* the declared type of an element, "string" when it declares none
DeclaredType(element) == Attr(element, "type", <<"s","t","r","i","n","g">>)

\* C14: is_date of a parameter descriptor is true iff the declared type maps
\* to DateTime (date or datetime in any case); the name does not count, so
\* StartPoint of type string has is_date = false
C14_IsDateIffTypeIsDateTime ==
    \A list \in DescriptorLists : \A i \in 1..Len(list) :
        list[i].is_date <=>
            (_map_xml_type_to_csharp(DeclaredType(ElementOf(i))) = "DateTime")

LineFunctionNames == {<<"d","o","c","n","o">>, <<"d","o","c","u","m","e","n","t","n","o">>, <<"n","o">>, <<"c","o","d","e">>}

\* the names of the parameters of the element list
ParameterNames == {Attr(NamedElements[i], "name", <<>>) : i \in 1..Len(NamedElements)}

\* C15: the line-function flag of the template context is true iff the
\* lower-cased name of at least one parameter is exactly docno, documentno,
\* no or code; names that only contain such a word (ItemCode, Notes) do not
\* set it, an empty list gives false, and [DocNo, Amount] gives true
C15_LineFunctionIffExactName ==
    context # <<>> =>
        /\ context.has_docno_param <=>
                (\E name \in ParameterNames : Lower(name) \in LineFunctionNames)
        /\ ParameterNames \subseteq {<<"I","t","e","m","C","o","d","e">>, <<"N","o","t","e","s">>} => ~context.has_docno_param
        /\ ParameterNames = {<<"D","o","c","N","o">>, <<"A","m","o","u","n","t">>} => context.has_docno_param

\* the context of [DocNo, Amount] has been built with the flag set
C15_Witness ==
    /\ context # <<>>
    /\ xml_elements = <<ElementPool[1], ElementPool[2]>>
    /\ context.has_docno_param

\* ------------------------------------------------------------------------
\* The service
\* ------------------------------------------------------------------------
\* the requests answered with the generated code
Answered == {r \in Requests : responses[r].status = 200}

\* the original name of the primary key of a DocumentSummary, <<>> when it
\* has none
PrimaryKeyName(info) ==
    IF Entry(info, "primary_key") = <<>> THEN <<>>
    ELSE <<info.primary_key[1].original_name>>

\* C17: the metadata of an answered full-generation request holds original
\* names only: primary_key is the original name of the primary key (or
\* absent), user_filter_fields and datatable_fields are the original names
\* of the fields of the DocumentSummary, in its order
C17_MetadataIsOriginalNames ==
    \A r \in Answered :
        LET info == parsers[r].document_info
            metadata == responses[r].metadata
        IN  /\ metadata.primary_key = PrimaryKeyName(info)
            /\ metadata.user_filter_fields = Names(info.user_filter_fields)
            /\ metadata.datatable_fields = Names(info.datatable_properties)

\* ------------------------------------------------------------------------
\* Instances used again
\* ------------------------------------------------------------------------
\* a run of _identify_document_structure on a descriptor list that a
\* completed run has already summarised
RepeatedRun == runs >= 1 /\ runs' = runs + 1

\* C18: summarization is idempotent: a further run of
\* _identify_document_structure on the unchanged descriptor list yields the
\* primary_key, user_filter_fields and datatable_fields of the run before
\* it, hence of the first run, and leaves the descriptor list unchanged
C18_SummarizeIsIdempotent ==
    [][RepeatedRun => (document_info' = document_info /\ properties' = properties)]_vars

\* the summary of a parsed sample with datatable fields has been computed
\* again
C18_Witness ==
    /\ runs >= 2
    /\ outcome = "returned"
    /\ DatatableFields # <<>>
    /\ document_info.primary_key # <<>>

\* the requests handled so far
Handled == {r \in Requests : responses[r] # Pending}

\* what a request with this sample produces when it is the only one the
\* process ever handles: the descriptors of the sample's own items up to
\* the first failing key, and their summary
Alone(sample) ==
    LET first == FirstRaising(sample)
        own == Props(SubSeq(sample, 1, Min(first - 1, Len(sample))))
    IN  IF first > Len(sample)
        THEN [odata |-> sample, properties |-> own,
              document_info |-> _identify_document_structure(own),
              outcome |-> "returned"]
        ELSE [odata |-> sample, properties |-> own,
              document_info |-> <<>>, outcome |-> "raised"]

\* C19: requests are independent: whatever the order in which the process
\* handles them, the descriptors, the DocumentSummary and the response of
\* every handled request are those of its own sample handled alone, and
\* stay so while other requests are handled
C19_RequestsAreIndependent ==
    \A r \in Handled :
        /\ parsers[r] = Alone(requests[r])
        /\ responses[r] = Response(Alone(requests[r]))

\* all requests have been handled, two of them with different samples that
\* both gave descriptors
C19_Witness ==
    /\ Handled = Requests
    /\ \E r, q \in Requests :
          /\ requests[r] # requests[q]
          /\ responses[r].status = 200 /\ responses[q].status = 200
          /\ parsers[r].properties # parsers[q].properties

\* C20: parse() does not reset the instance: after k calls of
\* ODataParser.parse() on one instance the descriptor list holds k copies of
\* every key's descriptor, k times the number of keys, in the order of the
\* sample, and the summary is taken from that grown list; after k calls of
\* FunctionParser.parse() the parameter list holds every named element k
\* times. Only the first call gives one descriptor per key.
C20_ParseAppendsToInstanceState ==
    /\ outcome = "returned" =>
          /\ Len(properties) = calls * Len(odata)
          /\ \A i \in 1..Len(properties) :
                properties[i] = Prop(KeyOf(i), ValueOf(i))
          /\ document_info = _identify_document_structure(properties)
          /\ (Len(properties) = Len(odata)) <=> (calls = 1 \/ odata = <<>>)
    /\ Len(parameters) = fcalls * Len(NamedElements)
    /\ \A i \in 1..Len(parameters) :
          <<parameters[i]>> = _parse_parameter_element(ElementOf(i))

\* both parsers have been used twice on a non-empty input, and the
\* datatable fields taken from the grown list name one key twice
C20_Witness ==
    /\ calls >= 2
    /\ outcome = "returned"
    /\ fcalls >= 2
    /\ Len(parameters) >= 2
    /\ \E i, j \in 1..Len(DatatableFields) :
          i < j /\ DatatableFields[i].original_name = DatatableFields[j].original_name

\* ------------------------------------------------------------------------
\* Function requests
\* ------------------------------------------------------------------------
\* the requests a function handler has run on
EnteredHandler == {r \in Requests : responses[r].status \notin {0, 422}}

\* C21: the function-header and function-line handlers accept
\* function_definition only as a mapping and pass it unchanged to
\* FunctionParser, whose cleaning step needs text: for every request a
\* handler has run on, the definition is a mapping, parsing raised, no
\* parameter descriptor was built and the response is the error response
\* 400, never a success response with code
C21_FunctionHandlersAlwaysFail ==
    \A r \in EnteredHandler :
        /\ requests[r].function_definition.kind = "dict"
        /\ parsers[r] # <<>>
        /\ parsers[r][1].xml_string = requests[r].function_definition
        /\ parsers[r][1].outcome = "raised"
        /\ parsers[r][1].parameters = <<>>
        /\ responses[r] = [status |-> 400, code |-> <<>>]

\* a header request and a line request, both with a mapping that lists
\* parameter elements, have been handled and answered 400
C21_Witness ==
    \E r, q \in EnteredHandler :
        /\ requests[r].endpoint = "header" /\ requests[q].endpoint = "line"
        /\ requests[r].function_definition.elements # <<>>
        /\ requests[q].function_definition.elements # <<>>
        /\ responses[r].status = 400 /\ responses[q].status = 400

====
